---------------------------- MODULE Spec2Model ----------------------------
(***************************************************************************)
(* Model of the backtest core of optimized_backtest.py: the rule engine    *)
(* (OptimizedBacktest.rule_based_strategy), the advisory arbitration layer *)
(* (FastGemmaAIAgent) and the driver loop with its ledger                  *)
(* (run_optimized_backtest).                                               *)
(*                                                                         *)
(* Numbers.  The program computes in Python floats; the model computes in  *)
(* fixed point: money in cents, BTC in 1/1000 BTC, prices, ATR and moving  *)
(* averages in whole dollars, RSI and position sizes in whole points.  A   *)
(* division rounds down (\div) where the float division would round to the *)
(* nearest double.  Timestamps are the row index of the bar.               *)
(***************************************************************************)
EXTENDS Integers, Sequences, FiniteSets, TLC

VARIABLES
    pc,                 \* position of run_optimized_backtest
    initial_cash,       \* OptimizedBacktest.initial_cash (cents)
    portfolio,          \* OptimizedBacktest.portfolio
    trading_history,    \* OptimizedBacktest.trading_history
    portfolio_history,  \* OptimizedBacktest.portfolio_history
    ai_enabled,         \* FastGemmaAIAgent.ai_enabled
    last_ai_call,       \* FastGemmaAIAgent.last_ai_call
    now,                \* the clock read by time.time()
    total_rows,         \* len(df_with_indicators)
    idx,                \* row index of the loop of run_optimized_backtest
    processed,          \* local counter `processed`
    ai_decisions,       \* local counter `ai_decisions`
    rule_decisions,     \* local counter `rule_decisions`
    trades_executed,    \* local counter `trades_executed`
    step,               \* what the last loop iteration did (history variable)
    oracle_kinds,       \* how the requests made so far ended (history variable)
    rule_only,          \* the run of the same bars on rule_based_strategy alone
    saves,              \* calls of save_backtest_results made by the run
    alerts_sent,        \* calls of alert_system.send_*_alert made by the run
    summary,            \* the performance summary of the run, once printed
    is_running,         \* TradingSystem.is_running (main.py)
    calls,              \* the calls of TradingSystem.run_backtest in progress
    subprocesses        \* backtest subprocesses alive

vars == <<pc, initial_cash, portfolio, trading_history, portfolio_history,
          ai_enabled, last_ai_call, now, total_rows, idx, processed,
          ai_decisions, rule_decisions, trades_executed, step, oracle_kinds,
                   rule_only, saves, alerts_sent, summary,
                   is_running, calls, subprocesses>>

\* what the run leaves behind besides its two histories
outputs == <<saves, alerts_sent, summary>>

\* the state of the dashboard's TradingSystem
dashboard == <<is_running, calls, subprocesses>>

----------------------------------------------------------------------------
(* Bounds of the model *)

\* number of bars the driver may process in one run
MaxBars == 2

----------------------------------------------------------------------------
(* Units *)

Usd(d) == d * 100

Abs(x) == IF x < 0 THEN 0 - x ELSE x

Max(a, b) == IF a > b THEN a ELSE b

Min(a, b) == IF a < b THEN a ELSE b

----------------------------------------------------------------------------
(* Program constants *)

\* OptimizedBacktest.min_trade_usd
min_trade_usd == 10

\* OptimizedBacktest.atr_high
atr_high == 1000

\* FastGemmaAIAgent.ai_call_delay
ai_call_delay == 2

\* the stride of df_with_indicators.iloc[::24]
Stride == 24

\* the warm-up prefix the loop skips (idx < 200)
WarmUp == 200

----------------------------------------------------------------------------
(* OptimizedBacktest.rule_based_strategy *)

Decision(action, size, reason, source) ==
    [action |-> action, position_size |-> size, reason |-> reason, source |-> source]

RuleDecision(action, size, reason) == Decision(action, size, reason, "RULE_BASED")

trend_strength(md) == IF md.sma50 > md.sma200 THEN "BULLISH" ELSE "BEARISH"

volatility_status(md) == IF md.atr > atr_high THEN "HIGH" ELSE "NORMAL"

\* faulty variant: an RSI of exactly 70 already counts as overbought
rsi_status_overbought_at_70(md) ==
    IF md.rsi < 30 THEN "OVERSOLD" ELSE IF md.rsi >= 70 THEN "OVERBOUGHT" ELSE "NEUTRAL"

rsi_status(md) ==
    IF md.rsi < 30 THEN "OVERSOLD" ELSE IF md.rsi > 70 THEN "OVERBOUGHT" ELSE "NEUTRAL"

\* faulty variant: in a bullish trend the momentum rule is tried before the
\* oversold rule
trend_rules_momentum_first(md, pf) ==
    IF trend_strength(md) = "BULLISH"
    THEN IF md.macd > 0 /\ md.rsi < 60 /\ pf.cash > Usd(min_trade_usd)
         THEN RuleDecision("BUY", 10, "Bullish momentum with room to grow")
         ELSE IF rsi_status(md) = "OVERSOLD" /\ pf.cash > Usd(min_trade_usd)
         THEN RuleDecision("BUY", 15, "Bullish trend with RSI oversold - Strong buy signal")
         ELSE IF md.price > md.ema12 /\ md.ema12 > md.ema26 /\ pf.cash > Usd(min_trade_usd)
         THEN RuleDecision("BUY", 8, "Strong uptrend confirmation")
         ELSE RuleDecision("HOLD", 0, "Bullish but waiting for better entry")
    ELSE IF rsi_status(md) = "OVERBOUGHT" /\ pf.btc > 0
         THEN RuleDecision("SELL", 15, "Bearish trend with RSI overbought - Strong sell signal")
         ELSE IF md.macd < 0 /\ md.rsi > 40 /\ pf.btc > 0
         THEN RuleDecision("SELL", 10, "Bearish momentum building")
         ELSE IF md.price < md.ema12 /\ md.ema12 < md.ema26 /\ pf.btc > 0
         THEN RuleDecision("SELL", 8, "Strong downtrend confirmation")
         ELSE RuleDecision("HOLD", 0, "Bearish but waiting for better exit")

\* the branches below the volatility check (`elif trend_strength == ...`)
trend_rules(md, pf) ==
    IF trend_strength(md) = "BULLISH"
    THEN IF rsi_status(md) = "OVERSOLD" /\ pf.cash > Usd(min_trade_usd)
         THEN RuleDecision("BUY", 15, "Bullish trend with RSI oversold - Strong buy signal")
         ELSE IF md.macd > 0 /\ md.rsi < 60 /\ pf.cash > Usd(min_trade_usd)
         THEN RuleDecision("BUY", 10, "Bullish momentum with room to grow")
         ELSE IF md.price > md.ema12 /\ md.ema12 > md.ema26 /\ pf.cash > Usd(min_trade_usd)
         THEN RuleDecision("BUY", 8, "Strong uptrend confirmation")
         ELSE RuleDecision("HOLD", 0, "Bullish but waiting for better entry")
    ELSE IF trend_strength(md) = "BEARISH"
    THEN IF rsi_status(md) = "OVERBOUGHT" /\ pf.btc > 0
         THEN RuleDecision("SELL", 15, "Bearish trend with RSI overbought - Strong sell signal")
         ELSE IF md.macd < 0 /\ md.rsi > 40 /\ pf.btc > 0
         THEN RuleDecision("SELL", 10, "Bearish momentum building")
         ELSE IF md.price < md.ema12 /\ md.ema12 < md.ema26 /\ pf.btc > 0
         THEN RuleDecision("SELL", 8, "Strong downtrend confirmation")
         ELSE RuleDecision("HOLD", 0, "Bearish but waiting for better exit")
    ELSE IF md.rsi < 35 /\ pf.cash > Usd(min_trade_usd)
         THEN RuleDecision("BUY", 5, "RSI oversold in sideways market")
         ELSE IF md.rsi > 65 /\ pf.btc > 0
         THEN RuleDecision("SELL", 5, "RSI overbought in sideways market")
         ELSE RuleDecision("HOLD", 0, "Sideways market - No clear signal")

\* faulty variant: the volatility check is consulted last, only when no trend rule
\* fires
rule_based_strategy_volatility_last(md, pf) ==
    IF trend_rules(md, pf).action # "HOLD"
    THEN trend_rules(md, pf)
    ELSE IF volatility_status(md) = "HIGH"
    THEN RuleDecision("HOLD", 0, "High volatility - Risk management")
    ELSE trend_rules(md, pf)

rule_based_strategy(md, pf) ==
    IF volatility_status(md) = "HIGH"
    THEN RuleDecision("HOLD", 0, "High volatility - Risk management")
    ELSE trend_rules(md, pf)

----------------------------------------------------------------------------
(* FastGemmaAIAgent: the advisory arbitration layer *)

\* what requests.post(...) and response.json() can end in
OracleKinds == {"timeout", "connection_error", "http_error", "bad_body", "ok"}

\* str.upper() on the action strings the model draws from
Upper(a) ==
    CASE a = "buy" -> "BUY"
      [] a = "sell" -> "SELL"
      [] a = "hold" -> "HOLD"
      [] OTHER -> a

\* the "Safe fallback" of _parse_ai_response
ParseFallback ==
    [action |-> "HOLD", position_size |-> 0, reason |-> "AI parse error",
     improvement |-> "Used fallback", source |-> "AI_FALLBACK"]

\* faulty variant: the oracle's size is taken as it is
ClampSize_unbounded(size) == size

\* the size ceiling of _parse_ai_response: min(float(position_size), 20)
ClampSize(size) == Min(size, 20)

\* A response text is modelled by what the parser can tell apart: whether it
\* holds a {...} span, whether json.loads accepts the span, and the object's
\* keys and the types of its values.
_parse_ai_response(text) ==
    IF /\ text.shape = "object"
       /\ {"action", "position_size", "reason"} \subseteq text.keys
       /\ text.action_type = "str"      \* else .upper() raises AttributeError
       /\ text.size_type = "num"        \* else float() raises
    THEN [action |-> Upper(text.action),
          position_size |-> ClampSize(text.position_size),
          reason |-> text.reason,
          improvement |-> IF "improvement" \in text.keys
                          THEN text.improvement
                          ELSE "Risk-adjusted position sizing",
          source |-> "AI_ENHANCED"]
    ELSE ParseFallback

\* faulty variant: only the sizes are compared
_is_meaningful_improvement_size_only(rule_decision, ai_decision) ==
    Abs(rule_decision.position_size - ai_decision.position_size) > 5

\* faulty variant: a size difference of exactly 5 already counts
_is_meaningful_improvement_from_margin(rule_decision, ai_decision) ==
    IF rule_decision.action # ai_decision.action
    THEN TRUE
    ELSE Abs(rule_decision.position_size - ai_decision.position_size) >= 5

_is_meaningful_improvement(rule_decision, ai_decision) ==
    IF rule_decision.action # ai_decision.action
    THEN TRUE
    ELSE Abs(rule_decision.position_size - ai_decision.position_size) > 5

\* abs(price - sma50) / sma50 > 0.05, for sma50 > 0
price_deviation_significant(md) == 100 * Abs(md.price - md.sma50) > 5 * md.sma50

\* faulty variant: the ATR is not among the signals
significant_event_without_volatility(md, rule_decision) ==
    \/ price_deviation_significant(md)
    \/ Abs(md.rsi - 50) > 20
    \/ rule_decision.position_size >= 15

\* faulty variant: an ATR of exactly 800 already counts as high volatility
significant_event_from_800(md, rule_decision) ==
    \/ price_deviation_significant(md)
    \/ Abs(md.rsi - 50) > 20
    \/ md.atr >= 800
    \/ rule_decision.position_size >= 15

significant_event(md, rule_decision) ==
    \/ price_deviation_significant(md)
    \/ Abs(md.rsi - 50) > 20
    \/ md.atr > 800
    \/ rule_decision.position_size >= 15

\* faulty variant: the time since the last request is not looked at
should_use_ai_no_rate_check(md, rule_decision, current_time, last_call, enabled) ==
    significant_event(md, rule_decision) /\ enabled

should_use_ai(md, rule_decision, current_time, last_call, enabled) ==
    IF current_time - last_call < ai_call_delay
    THEN FALSE
    ELSE significant_event(md, rule_decision) /\ enabled

\* faulty variant: the response is parsed whatever the request ended in
decision_after_request_always_parses(rule_decision, outcome) ==
    LET ai_decision == _parse_ai_response(outcome.text)
    IN  IF _is_meaningful_improvement(rule_decision, ai_decision)
        THEN ai_decision
        ELSE rule_decision

\* faulty variant: a request that fails turns the step into a HOLD
decision_after_request_hold_on_failure(rule_decision, outcome) ==
    IF outcome.kind = "ok"
    THEN LET ai_decision == _parse_ai_response(outcome.text)
         IN  IF _is_meaningful_improvement(rule_decision, ai_decision)
             THEN ai_decision
             ELSE rule_decision
    ELSE Decision("HOLD", 0, "AI unavailable", "AI_FALLBACK")

\* The decision get_ai_decision returns when the request is made and ends in
\* `outcome`.  A timeout, a connection error and any other exception are
\* caught, a status other than 200 falls through: all reach the last
\* `return rule_decision`.
decision_after_request(rule_decision, outcome) ==
    IF outcome.kind = "ok"
    THEN LET ai_decision == _parse_ai_response(outcome.text)
         IN  IF _is_meaningful_improvement(rule_decision, ai_decision)
             THEN ai_decision
             ELSE rule_decision
    ELSE rule_decision

\* time.time() is read a second time inside the try block; the clock does
\* not run backwards during the call, so the second rate check passes
\* whenever should_use_ai did, and both reads are current_time.
get_ai_decision(md, rule_decision, outcome, current_time, last_call, enabled) ==
    IF ~should_use_ai(md, rule_decision, current_time, last_call, enabled)
    THEN rule_decision
    ELSE decision_after_request(rule_decision, outcome)

----------------------------------------------------------------------------
(* The ledger part of the loop body of run_optimized_backtest *)

\* trade_amount = cash * (position_size / 100.0), in cents
buy_amount(cash, position_size) == (cash * position_size) \div 100

\* btc_bought = trade_amount / price, in 1/1000 BTC
btc_for(trade_amount, price) == (trade_amount * 10) \div price

\* sell_quantity = btc * (position_size / 100.0)
sell_qty(btc, position_size) == (btc * position_size) \div 100

\* trade_amount = sell_quantity * price, and btc_value = btc * price, in cents
value_of(btc, price) == (btc * price) \div 10

\* profit = sell_quantity * (price - cash / btc), cash and btc before the sale
sell_profit(sell_quantity, price, cash, btc) ==
    (sell_quantity * (price - ((cash * 10) \div btc))) \div 10

\* faulty variant: an amount of exactly min_trade_usd is rejected
apply_buy_strict_minimum(pf, position_size, price) ==
    LET trade_amount == buy_amount(pf.cash, position_size)
        btc_bought == btc_for(trade_amount, price)
    IN  IF trade_amount > Usd(min_trade_usd)
        THEN [executed |-> TRUE,
              cash |-> pf.cash - trade_amount,
              btc |-> pf.btc + btc_bought,
              realized_profit |-> pf.realized_profit,
              update |-> [trade_amount |-> trade_amount, btc_traded |-> btc_bought,
                          type |-> "BUY"]]
        ELSE [executed |-> FALSE, cash |-> pf.cash, btc |-> pf.btc,
              realized_profit |-> pf.realized_profit, update |-> <<>>]

\* faulty variant: no minimum trade size
apply_buy_no_minimum(pf, position_size, price) ==
    LET trade_amount == buy_amount(pf.cash, position_size)
        btc_bought == btc_for(trade_amount, price)
    IN  [executed |-> TRUE,
         cash |-> pf.cash - trade_amount,
         btc |-> pf.btc + btc_bought,
         realized_profit |-> pf.realized_profit,
         update |-> [trade_amount |-> trade_amount, btc_traded |-> btc_bought,
                     type |-> "BUY"]]

\* The outcome of the BUY / SELL branches: the balances after them, whether a
\* trade was executed, and the fields the branch adds to trade_details.
apply_buy(pf, position_size, price) ==
    LET trade_amount == buy_amount(pf.cash, position_size)
        btc_bought == btc_for(trade_amount, price)
    IN  IF trade_amount >= Usd(min_trade_usd)
        THEN [executed |-> TRUE,
              cash |-> pf.cash - trade_amount,
              btc |-> pf.btc + btc_bought,
              realized_profit |-> pf.realized_profit,
              update |-> [trade_amount |-> trade_amount, btc_traded |-> btc_bought,
                          type |-> "BUY"]]
        ELSE [executed |-> FALSE, cash |-> pf.cash, btc |-> pf.btc,
              realized_profit |-> pf.realized_profit, update |-> <<>>]

\* faulty variant: a sale is executed whatever the sign of the quantity
apply_sell_unchecked_quantity(pf, position_size, price) ==
    LET sell_quantity == sell_qty(pf.btc, position_size)
        trade_amount == value_of(sell_quantity, price)
        profit == sell_profit(sell_quantity, price, pf.cash, pf.btc)
    IN  [executed |-> TRUE,
         cash |-> pf.cash + trade_amount,
         btc |-> pf.btc - sell_quantity,
         realized_profit |-> pf.realized_profit + Max(profit, 0),
         update |-> [trade_amount |-> trade_amount, btc_traded |-> sell_quantity,
                     profit |-> Max(profit, 0), type |-> "SELL"]]

\* faulty variant: losses are added to realized_profit too
apply_sell_signed_profit(pf, position_size, price) ==
    LET sell_quantity == sell_qty(pf.btc, position_size)
    IN  IF sell_quantity > 0
        THEN LET trade_amount == value_of(sell_quantity, price)
                 profit == sell_profit(sell_quantity, price, pf.cash, pf.btc)
             IN  [executed |-> TRUE,
                  cash |-> pf.cash + trade_amount,
                  btc |-> pf.btc - sell_quantity,
                  realized_profit |-> pf.realized_profit + profit,
                  update |-> [trade_amount |-> trade_amount,
                              btc_traded |-> sell_quantity,
                              profit |-> profit, type |-> "SELL"]]
        ELSE [executed |-> FALSE, cash |-> pf.cash, btc |-> pf.btc,
              realized_profit |-> pf.realized_profit, update |-> <<>>]

apply_sell(pf, position_size, price) ==
    LET sell_quantity == sell_qty(pf.btc, position_size)
    IN  IF sell_quantity > 0
        THEN LET trade_amount == value_of(sell_quantity, price)
                 profit == sell_profit(sell_quantity, price, pf.cash, pf.btc)
             IN  [executed |-> TRUE,
                  cash |-> pf.cash + trade_amount,
                  btc |-> pf.btc - sell_quantity,
                  realized_profit |-> pf.realized_profit + Max(profit, 0),
                  update |-> [trade_amount |-> trade_amount,
                              btc_traded |-> sell_quantity,
                              profit |-> Max(profit, 0), type |-> "SELL"]]
        ELSE [executed |-> FALSE, cash |-> pf.cash, btc |-> pf.btc,
              realized_profit |-> pf.realized_profit, update |-> <<>>]

\* faulty variant: the SELL branch does not look at the action
execute_trade_sell_any_action(pf, final_decision, price) ==
    IF final_decision.action = "BUY" /\ pf.cash > Usd(min_trade_usd)
    THEN apply_buy(pf, final_decision.position_size, price)
    ELSE IF pf.btc > 0
    THEN apply_sell(pf, final_decision.position_size, price)
    ELSE [executed |-> FALSE, cash |-> pf.cash, btc |-> pf.btc,
          realized_profit |-> pf.realized_profit, update |-> <<>>]

\* faulty variant: a step without a purchase or a sale counts as executed too
execute_trade_recording_all(pf, final_decision, price) ==
    IF final_decision.action = "BUY" /\ pf.cash > Usd(min_trade_usd)
    THEN apply_buy(pf, final_decision.position_size, price)
    ELSE IF final_decision.action = "SELL" /\ pf.btc > 0
    THEN apply_sell(pf, final_decision.position_size, price)
    ELSE [executed |-> TRUE, cash |-> pf.cash, btc |-> pf.btc,
          realized_profit |-> pf.realized_profit, update |-> <<>>]

execute_trade(pf, final_decision, price) ==
    IF final_decision.action = "BUY" /\ pf.cash > Usd(min_trade_usd)
    THEN apply_buy(pf, final_decision.position_size, price)
    ELSE IF final_decision.action = "SELL" /\ pf.btc > 0
    THEN apply_sell(pf, final_decision.position_size, price)
    ELSE [executed |-> FALSE, cash |-> pf.cash, btc |-> pf.btc,
          realized_profit |-> pf.realized_profit, update |-> <<>>]

\* faulty variant: total_value is recomputed only when a trade was executed
updated_portfolio_on_trade_only(res, price) ==
    [cash |-> res.cash, btc |-> res.btc,
     total_value |-> IF res.executed
                     THEN res.cash + value_of(res.btc, price)
                     ELSE portfolio.total_value,
     realized_profit |-> res.realized_profit]

\* "Update portfolio value": total_value = cash + btc * price
updated_portfolio(res, price) ==
    [cash |-> res.cash, btc |-> res.btc,
     total_value |-> res.cash + value_of(res.btc, price),
     realized_profit |-> res.realized_profit]

\* faulty variant: every step is tagged RULES
decision_source_of_untagged(final_decision) == "RULES"

decision_source_of(final_decision) ==
    IF final_decision.source = "AI_ENHANCED" THEN "AI" ELSE "RULES"

\* trade_details as appended to trading_history (the informational fields
\* rsi, atr and trend are left out)
trade_record(timestamp, price, final_decision, before, after, res) ==
    [timestamp |-> timestamp,
     action |-> final_decision.action,
     price |-> price,
     position_size |-> final_decision.position_size,
     reason |-> final_decision.reason,
     decision_source |-> decision_source_of(final_decision),
     cash_before |-> before.cash,
     btc_before |-> before.btc,
     portfolio_value_before |-> before.total_value,
     cash_after |-> after.cash,
     btc_after |-> after.btc,
     portfolio_value_after |-> after.total_value,
     realized_profit |-> after.realized_profit] @@ res.update

\* faulty variant: the snapshot's total_value leaves out the BTC held
portfolio_snapshot_cash_only(timestamp, price, after) ==
    [timestamp |-> timestamp,
     price |-> price,
     cash |-> after.cash,
     btc_holdings |-> after.btc,
     btc_value |-> value_of(after.btc, price),
     total_value |-> after.cash,
     realized_profit |-> after.realized_profit,
     unrealized_profit |-> after.cash - initial_cash]

portfolio_snapshot(timestamp, price, after) ==
    [timestamp |-> timestamp,
     price |-> price,
     cash |-> after.cash,
     btc_holdings |-> after.btc,
     btc_value |-> value_of(after.btc, price),
     total_value |-> after.total_value,
     realized_profit |-> after.realized_profit,
     unrealized_profit |-> after.total_value - initial_cash]

----------------------------------------------------------------------------
(* Inputs of the model: the indicator frames and the oracle's answers *)

\* OptimizedBacktest(initial_cash=...): run_optimized_backtest passes 100000,
\* the constructor takes any amount (dollars)
InitialCashSet == {100000, 50}

PriceSet == {10000, 50000}

RsiSet == {25, 50, 75}

AtrSet == {500, 1200}

\* The frames the driver may meet: SMA_50 above or below SMA_200, and
\* macd = EMA_12 - EMA_26 as calculate_technical_indicators sets it.
Frames ==
    { [price |-> p, rsi |-> r, sma50 |-> s50, sma200 |-> 30000,
       ema12 |-> 40000, ema26 |-> 13000, macd |-> 40000 - 13000, atr |-> a] :
        p \in PriceSet, r \in RsiSet, s50 \in PriceSet, a \in AtrSet }

ResponseText(shape, keys, action, action_type, size, size_type) ==
    [shape |-> shape, keys |-> keys, action |-> action, action_type |-> action_type,
     position_size |-> size, size_type |-> size_type,
     reason |-> "oracle reason", improvement |-> "oracle improvement"]

RequiredKeys == {"action", "position_size", "reason"}

\* a response holding a JSON object with the three required fields
WellFormed(action, size) ==
    ResponseText("object", RequiredKeys, action, "str", size, "num")

OracleActions == {"BUY", "SELL", "HOLD"}

OracleSizes == {-5, 25}

WellFormedTexts == { WellFormed(a, z) : a \in OracleActions, z \in OracleSizes }

\* a response text without a {...} span
MalformedTexts == { ResponseText("no_json", {}, "", "str", 0, "num") }

NoText == ResponseText("none", {}, "", "str", 0, "num")

Outcome(kind, text) == [kind |-> kind, text |-> text]

FailedOutcomes ==
    { Outcome(k, NoText) : k \in {"timeout"} }

OracleOutcomes ==
    FailedOutcomes \cup { Outcome("ok", t) : t \in WellFormedTexts \cup MalformedTexts }

NoOutcome == Outcome("none", NoText)

\* seconds that may pass between two bars of the loop
ElapsedSet == {1, 2}

----------------------------------------------------------------------------
(* run_optimized_backtest *)

NoDecision == Decision("", 0, "", "")

NoStep ==
    [kind |-> "none", idx |-> 0, price |-> 0, rule |-> NoDecision, final |-> NoDecision,
     decision_source |-> "", consulted |-> FALSE, outcome |-> NoOutcome,
     before |-> [cash |-> 0, btc |-> 0, total_value |-> 0, realized_profit |-> 0],
     executed |-> FALSE]

\* The run the loop would make on rule_based_strategy alone, that is with
\* final_decision = rule_decision on every bar: its portfolio and its two
\* histories.  SpecDegraded advances it side by side with the program's run;
\* the other specifications leave it at its start.
rule_only_start(cash) ==
    [portfolio |-> [cash |-> cash, btc |-> 0, total_value |-> cash,
                    realized_profit |-> 0],
     trading_history |-> <<>>,
     portfolio_history |-> <<>>]

\* the loop body on the bar md with final_decision = rule_decision; count is
\* the value of `processed` after the bar
rule_only_step(run, md, timestamp, count) ==
    LET rule_decision == rule_based_strategy(md, run.portfolio)
        res == execute_trade(run.portfolio, rule_decision, md.price)
        after == updated_portfolio(res, md.price)
    IN  [portfolio |-> after,
         trading_history |->
             IF res.executed
             THEN Append(run.trading_history,
                         trade_record(timestamp, md.price, rule_decision,
                                      run.portfolio, after, res))
             ELSE run.trading_history,
         portfolio_history |->
             IF Len(run.portfolio_history) = 0 \/ count % 30 = 0
             THEN Append(run.portfolio_history,
                         portfolio_snapshot(timestamp, md.price, after))
             ELSE run.portfolio_history]

\* nothing saved, no alert sent, no summary printed
NoSummary == [printed |-> FALSE, entry_row |-> 0, exit_row |-> 0, total_trades |-> 0]

NoOutputs ==
    /\ saves = 0
    /\ alerts_sent = 0
    /\ summary = NoSummary

\* the callers of TradingSystem.run_backtest: the startup event and the
\* handlers of two POST /run-backtest requests
Callers == {"startup", "post_a", "post_b"}

\* TradingSystem.__init__, no call in progress
TradingSystemInit ==
    /\ is_running = FALSE
    /\ calls = [c \in Callers |-> [pc |-> "idle", result |-> "none", requests |-> 0]]
    /\ subprocesses = 0

\* OptimizedBacktest.__init__ and FastGemmaAIAgent.__init__; the clock shows
\* the seconds since the epoch, far more than ai_call_delay
Init ==
    /\ pc = "fetch"
    /\ initial_cash \in { Usd(c) : c \in InitialCashSet }
    /\ portfolio = [cash |-> initial_cash, btc |-> 0, total_value |-> initial_cash,
                    realized_profit |-> 0]
    /\ trading_history = <<>>
    /\ portfolio_history = <<>>
    /\ ai_enabled \in BOOLEAN
    /\ last_ai_call = 0
    /\ now = 1000
    /\ total_rows = 0
    /\ idx = 0
    /\ processed = 0
    /\ ai_decisions = 0
    /\ rule_decisions = 0
    /\ trades_executed = 0
    /\ step = NoStep
    /\ oracle_kinds = {}
    /\ rule_only = rule_only_start(initial_cash)
    /\ NoOutputs
    /\ TradingSystemInit

\* the series lengths the fetch may deliver: none, shorter than the warm-up,
\* and one for each number of processed bars up to MaxBars
TotalRowsSet == {0, 150} \cup { WarmUp + Stride * k : k \in 1..MaxBars }

\* faulty variant: the empty results are saved before the run returns
FetchFailed_saving ==
    /\ pc = "fetch"
    /\ pc' = "failed"
    /\ saves' = saves + 1
    /\ UNCHANGED <<initial_cash, portfolio, trading_history, portfolio_history,
                   ai_enabled, last_ai_call, now, total_rows, idx, processed,
                   ai_decisions, rule_decisions, trades_executed, step, oracle_kinds,
                   rule_only, alerts_sent, summary, dashboard>>

\* df = backtest.fetch_6months_binance_data(): None ends the run
FetchFailed ==
    /\ pc = "fetch"
    /\ pc' = "failed"
    /\ UNCHANGED <<initial_cash, portfolio, trading_history, portfolio_history,
                   ai_enabled, last_ai_call, now, total_rows, idx, processed,
                   ai_decisions, rule_decisions, trades_executed, step, oracle_kinds,
                   rule_only, outputs, dashboard>>

Fetched ==
    /\ pc = "fetch"
    /\ \E n \in TotalRowsSet : total_rows' = n
    /\ pc' = "stepping"
    /\ idx' = 0
    /\ UNCHANGED <<initial_cash, portfolio, trading_history, portfolio_history,
                   ai_enabled, last_ai_call, now, processed,
                   ai_decisions, rule_decisions, trades_executed, step, oracle_kinds,
                   rule_only, outputs, dashboard>>

\* faulty variant: the warm-up rows are walked with a stride of 25
SkipWarmUp_stride_25 ==
    /\ pc = "stepping"
    /\ idx < total_rows
    /\ idx < WarmUp
    /\ idx' = idx + Stride + 1
    /\ UNCHANGED <<pc, initial_cash, portfolio, trading_history, portfolio_history,
                   ai_enabled, last_ai_call, now, total_rows, processed,
                   ai_decisions, rule_decisions, trades_executed, step, oracle_kinds,
                   rule_only, outputs, dashboard>>

\* `if idx < 200: continue`
SkipWarmUp ==
    /\ pc = "stepping"
    /\ idx < total_rows
    /\ idx < WarmUp
    /\ idx' = idx + Stride
    /\ UNCHANGED <<pc, initial_cash, portfolio, trading_history, portfolio_history,
                   ai_enabled, last_ai_call, now, total_rows, processed,
                   ai_decisions, rule_decisions, trades_executed, step, oracle_kinds,
                   rule_only, outputs, dashboard>>

\* the trades of the last 14 days of hourly bars are announced
RecentRows == 336

recent_cutoff == total_rows - RecentRows

\* The loop body for the bar at idx, with frame md, the clock at current_time
\* and the oracle's request, if one is made, ending in outcome.
LoopBody(md, outcome, current_time) ==
    LET rule_decision == rule_based_strategy(md, portfolio)
        final_decision == get_ai_decision(md, rule_decision, outcome,
                                          current_time, last_ai_call, ai_enabled)
        res == execute_trade(portfolio, final_decision, md.price)
        after == updated_portfolio(res, md.price)
    IN  /\ now' = current_time
        /\ last_ai_call' = IF outcome.kind # "none" THEN current_time ELSE last_ai_call
        /\ processed' = processed + 1
        /\ ai_decisions' = ai_decisions
                             + (IF final_decision.source = "AI_ENHANCED" THEN 1 ELSE 0)
        /\ rule_decisions' = rule_decisions
                             + (IF final_decision.source = "AI_ENHANCED" THEN 0 ELSE 1)
        /\ portfolio' = after
        /\ trading_history' =
             IF res.executed
             THEN Append(trading_history,
                         trade_record(idx, md.price, final_decision, portfolio, after, res))
             ELSE trading_history
        /\ trades_executed' = trades_executed + (IF res.executed THEN 1 ELSE 0)
        /\ alerts_sent' = alerts_sent
                            + (IF res.executed /\ idx >= recent_cutoff THEN 1 ELSE 0)
        /\ portfolio_history' =
             IF Len(portfolio_history) = 0 \/ processed' % 30 = 0
             THEN Append(portfolio_history, portfolio_snapshot(idx, md.price, after))
             ELSE portfolio_history
        /\ step' = [kind |-> "bar", idx |-> idx, price |-> md.price,
                    rule |-> rule_decision, final |-> final_decision,
                    decision_source |-> decision_source_of(final_decision),
                    consulted |-> outcome.kind # "none", outcome |-> outcome,
                    before |-> portfolio, executed |-> res.executed]
        /\ oracle_kinds' = IF outcome.kind # "none"
                           THEN oracle_kinds \cup {outcome.kind}
                           ELSE oracle_kinds

\* one iteration of the loop for a bar past the warm-up; the request to the
\* oracle is made, and has an outcome, only when should_use_ai allows it
ProcessBar ==
    /\ pc = "stepping"
    /\ idx < total_rows
    /\ idx >= WarmUp
    /\ \E md \in Frames, elapsed \in ElapsedSet :
         IF should_use_ai(md, rule_based_strategy(md, portfolio), now + elapsed,
                          last_ai_call, ai_enabled)
         THEN \E outcome \in OracleOutcomes : LoopBody(md, outcome, now + elapsed)
         ELSE LoopBody(md, NoOutcome, now + elapsed)
    /\ idx' = idx + Stride
    /\ UNCHANGED <<pc, initial_cash, ai_enabled, total_rows, rule_only,
                   saves, summary, dashboard>>

\* the row of the buy-and-hold entry price, df['Close'].iloc[200]
BuyHoldEntryRow == 200

\* The loop is exhausted: save_backtest_results, the two system alerts and
\* the summary.  df['Close'].iloc[-1] raises IndexError on an empty frame,
\* before the alerts; df['Close'].iloc[200] raises IndexError on a frame of
\* at most 200 rows, after the alerts and before the summary is printed.
Finish ==
    /\ pc = "stepping"
    /\ idx >= total_rows
    /\ saves' = saves + 1
    /\ IF total_rows = 0
       THEN /\ pc' = "crashed"
            /\ UNCHANGED <<alerts_sent, summary>>
       ELSE IF total_rows <= BuyHoldEntryRow
       THEN /\ pc' = "crashed"
            /\ alerts_sent' = alerts_sent + 2
            /\ UNCHANGED summary
       ELSE /\ pc' = "done"
            /\ alerts_sent' = alerts_sent + 2
            /\ summary' = [printed |-> TRUE,
                           entry_row |-> BuyHoldEntryRow,
                           exit_row |-> total_rows - 1,
                           total_trades |-> trades_executed]
    /\ UNCHANGED <<initial_cash, portfolio, trading_history, portfolio_history,
                   ai_enabled, last_ai_call, now, total_rows, idx, processed,
                   ai_decisions, rule_decisions, trades_executed, step, oracle_kinds,
                   rule_only, dashboard>>

Next == FetchFailed \/ Fetched \/ SkipWarmUp \/ ProcessBar \/ Finish

Spec == Init /\ [][Next]_vars

----------------------------------------------------------------------------
(* Properties of the driver and its ledger *)

\* a step of the loop that processed a bar (SkipWarmUp has idx < WarmUp, the
\* other actions leave idx alone or reset it from pc = "fetch")
BarTransition == pc = "stepping" /\ idx >= WarmUp /\ idx' = idx + Stride

LastTrade == trading_history[Len(trading_history)]

\* the step appended exactly one record to trading_history
AppendedOne ==
    /\ Len(trading_history') = Len(trading_history) + 1
    /\ SubSeq(trading_history', 1, Len(trading_history)) = trading_history

\* C1: portfolio non-negativity: after every processed bar, whatever the
\* prices and the final decisions (rule-based or adopted from the oracle),
\* cash >= 0 and btc >= 0.
C1_NonNegative == portfolio.cash >= 0 /\ portfolio.btc >= 0

\* a BUY then a SELL adopted from the oracle were both executed
C1_Witness ==
    /\ step.kind = "bar"
    /\ step.executed
    /\ step.final.action = "SELL"
    /\ step.final.source = "AI_ENHANCED"
    /\ Len(trading_history) = 2
    /\ trading_history[1].type = "BUY"

\* C3: arbitration fallback: as long as every request to the oracle has timed
\* out, every processed bar's final decision is the rule decision, its source
\* is RULES, no step was counted as AI and no TradeRecord is tagged AI.
C3_TimeoutFallback ==
    oracle_kinds \subseteq {"timeout"} =>
        /\ ai_decisions = 0
        /\ rule_decisions = processed
        /\ step.kind = "bar" =>
             /\ step.final = step.rule
             /\ step.decision_source = "RULES"
        /\ \A i \in 1..Len(trading_history) :
             trading_history[i].decision_source = "RULES"

\* two requests, both timed out, and the rule's BUY was executed after the
\* second
C3_Witness ==
    /\ oracle_kinds = {"timeout"}
    /\ processed = 2
    /\ step.consulted
    /\ step.outcome.kind = "timeout"
    /\ step.rule.action = "BUY"
    /\ step.executed

\* the oracle answered 200 with a JSON object holding action, position_size
\* and reason of the right types
ReturnedDecision(outcome) ==
    /\ outcome.kind = "ok"
    /\ outcome.text.shape = "object"
    /\ {"action", "position_size", "reason"} \subseteq outcome.text.keys
    /\ outcome.text.action_type = "str"
    /\ outcome.text.size_type = "num"

\* C4: arbitration adoption: on a step where the oracle returns a decision
\* whose action differs from the rule's, the final decision is the oracle's
\* (its action, its size up to the ceiling of 20, its reason), its source is
\* AI_ENHANCED, and the driver tags the step, and the trade if one is
\* executed, as AI.
C4_Adoption ==
    ( /\ step.kind = "bar"
      /\ step.consulted
      /\ ReturnedDecision(step.outcome)
      /\ Upper(step.outcome.text.action) # step.rule.action )
    =>
    /\ step.final.action = Upper(step.outcome.text.action)
    /\ step.final.position_size =
         (IF step.outcome.text.position_size > 20 THEN 20
          ELSE step.outcome.text.position_size)
    /\ step.final.reason = step.outcome.text.reason
    /\ step.final.source = "AI_ENHANCED"
    /\ step.decision_source = "AI"
    /\ ai_decisions >= 1
    /\ step.executed => LastTrade.decision_source = "AI"

\* the rule said HOLD, the oracle said BUY, and the BUY was executed
C4_Witness ==
    /\ step.kind = "bar"
    /\ step.consulted
    /\ ReturnedDecision(step.outcome)
    /\ step.rule.action = "HOLD"
    /\ step.outcome.text.action = "BUY"
    /\ step.executed
    /\ LastTrade.decision_source = "AI"

\* C6: HOLD leaves the ledger untouched: on a processed bar whose final
\* decision is HOLD, cash, btc and realized_profit are unchanged, no
\* TradeRecord is appended, and total_value becomes cash + btc x price.
C6_HoldFrame ==
    [][ (BarTransition /\ step'.final.action = "HOLD") =>
          /\ portfolio'.cash = portfolio.cash
          /\ portfolio'.btc = portfolio.btc
          /\ portfolio'.realized_profit = portfolio.realized_profit
          /\ trading_history' = trading_history
          /\ trades_executed' = trades_executed
          /\ portfolio'.total_value =
               portfolio.cash + ((portfolio.btc * step'.price) \div 10) ]_vars

\* a HOLD on a bar whose price moved the value of the BTC held
C6_Witness ==
    /\ step.kind = "bar"
    /\ step.final.action = "HOLD"
    /\ portfolio.btc > 0
    /\ portfolio.total_value # step.before.total_value

\* C7: BUY application: for a final BUY of size s at price p, with
\* amount = cash*s/100: if amount < min_trade_usd nothing changes and no
\* record is appended; otherwise cash falls by amount, btc rises by amount/p
\* and one TradeRecord with trade_amount = amount and btc_traded = amount/p
\* is appended.
C7_BuyApplication ==
    [][ (BarTransition /\ step'.final.action = "BUY") =>
          LET amount == (portfolio.cash * step'.final.position_size) \div 100
              bought == (amount * 10) \div step'.price
          IN  IF amount < 10 * 100
              THEN /\ portfolio'.cash = portfolio.cash
                   /\ portfolio'.btc = portfolio.btc
                   /\ trading_history' = trading_history
              ELSE /\ portfolio'.cash = portfolio.cash - amount
                   /\ portfolio'.btc = portfolio.btc + bought
                   /\ AppendedOne
                   /\ trading_history'[Len(trading_history')].trade_amount = amount
                   /\ trading_history'[Len(trading_history')].btc_traded = bought
                   /\ trading_history'[Len(trading_history')].type = "BUY" ]_vars

\* cash = 100000 and s = 15 give trade_amount 15000 and cash 85000
C7_Witness ==
    /\ step.kind = "bar"
    /\ step.executed
    /\ step.final.action = "BUY"
    /\ step.final.position_size = 15
    /\ step.before.cash = 100000 * 100
    /\ LastTrade.trade_amount = 15000 * 100
    /\ portfolio.cash = 85000 * 100

\* the rejected BUY: cash = 50 and s = 15 give $7.50 < $10
C7_NoOpReached ==
    /\ step.kind = "bar"
    /\ ~step.executed
    /\ step.final.action = "BUY"
    /\ step.before.cash = 50 * 100
    /\ step.final.position_size = 15

\* C8: SELL application: for a final SELL of size s at price p,
\* quantity = btc*s/100; if btc = 0 or quantity is not positive nothing
\* changes and no record is appended; otherwise btc falls by quantity, cash
\* rises by quantity*p and one TradeRecord with btc_traded = quantity and
\* trade_amount = quantity*p is appended.
C8_SellApplication ==
    [][ (BarTransition /\ step'.final.action = "SELL") =>
          LET quantity == (portfolio.btc * step'.final.position_size) \div 100
              amount == (quantity * step'.price) \div 10
          IN  IF portfolio.btc = 0 \/ quantity <= 0
              THEN /\ portfolio'.cash = portfolio.cash
                   /\ portfolio'.btc = portfolio.btc
                   /\ trading_history' = trading_history
              ELSE /\ portfolio'.btc = portfolio.btc - quantity
                   /\ portfolio'.cash = portfolio.cash + amount
                   /\ AppendedOne
                   /\ trading_history'[Len(trading_history')].btc_traded = quantity
                   /\ trading_history'[Len(trading_history')].trade_amount = amount
                   /\ trading_history'[Len(trading_history')].type = "SELL" ]_vars

\* holdings 1.0, s = 15, p = 50000 give quantity 0.15, amount 7500 and
\* holdings 0.85
C8_Witness ==
    /\ step.kind = "bar"
    /\ step.executed
    /\ step.final.action = "SELL"
    /\ step.final.position_size = 15
    /\ step.price = 50000
    /\ step.before.btc = 1000
    /\ LastTrade.btc_traded = 150
    /\ LastTrade.trade_amount = 7500 * 100
    /\ portfolio.btc = 850
    /\ portfolio.cash = step.before.cash + 7500 * 100

\* a SELL the oracle proposed while no BTC is held is rejected
C8_NoOpReached ==
    /\ step.kind = "bar"
    /\ ~step.executed
    /\ step.final.action = "SELL"
    /\ step.before.btc = 0

\* the profit of a sale as the claim states it
ClaimedProfit(quantity, price, cash_before, btc_before) ==
    (quantity * (price - ((cash_before * 10) \div btc_before))) \div 10

\* C9: realized_profit starts at 0; an executed SELL adds
\* max(quantity*(price - cash_before/btc_before), 0) to it and no other step
\* changes it, so it never decreases; every TradeRecord's profit is >= 0.
C9_RealizedProfit ==
    /\ [][ IF BarTransition /\ step'.executed /\ step'.final.action = "SELL"
           THEN LET quantity == trading_history'[Len(trading_history')].btc_traded
                    profit == ClaimedProfit(quantity, step'.price,
                                            portfolio.cash, portfolio.btc)
                IN  portfolio'.realized_profit = portfolio.realized_profit
                        + (IF profit > 0 THEN profit ELSE 0)
           ELSE portfolio'.realized_profit = portfolio.realized_profit ]_vars
    /\ [](portfolio.realized_profit >= 0)
    /\ [](\A i \in 1..Len(trading_history) :
            trading_history[i].type = "SELL" => trading_history[i].profit >= 0)

\* a sale below the cash/btc ratio (contribution 0) has been executed
C9_Witness ==
    /\ step.kind = "bar"
    /\ step.executed
    /\ step.final.action = "SELL"
    /\ step.price * step.before.btc < step.before.cash * 10
    /\ LastTrade.profit = 0

\* a sale above the cash/btc ratio added a positive profit
C9_PositiveReached ==
    /\ step.kind = "bar"
    /\ step.executed
    /\ step.final.action = "SELL"
    /\ LastTrade.profit > 0
    /\ portfolio.realized_profit = LastTrade.profit

\* C10: valuation: at the end of every processed bar, traded or not,
\* total_value = cash + btc x the bar's close price.
C10_Valuation ==
    step.kind = "bar" =>
        portfolio.total_value = portfolio.cash + ((portfolio.btc * step.price) \div 10)

\* a rejected BUY on a bar whose price moved the value of the BTC held
C10_Witness ==
    /\ step.kind = "bar"
    /\ ~step.executed
    /\ step.final.action = "BUY"
    /\ portfolio.btc > 0
    /\ portfolio.total_value # step.before.total_value

\* C17: oracle size ceiling: every decision adopted from the oracle has
\* position_size <= 20 whatever size the oracle returned, so no executed BUY
\* spends more than 20% of cash and no executed SELL sells more than 20% of
\* the holdings in one step.
C17_SizeCeiling ==
    [][ BarTransition =>
          /\ (step'.consulted /\ step'.final # step'.rule)
                => step'.final.position_size <= 20
          /\ 100 * (portfolio.cash - portfolio'.cash) <= 20 * portfolio.cash
          /\ 100 * (portfolio.btc - portfolio'.btc) <= 20 * portfolio.btc ]_vars

\* the oracle asked for BUY 25 against the rule's HOLD; the adopted decision
\* has size 20 and the BUY spent exactly a fifth of the cash
C17_Witness ==
    /\ step.kind = "bar"
    /\ step.consulted
    /\ ReturnedDecision(step.outcome)
    /\ step.rule.action = "HOLD"
    /\ step.outcome.text.action = "BUY"
    /\ step.outcome.text.position_size = 25
    /\ step.final.position_size = 20
    /\ step.executed
    /\ 5 * (LastTrade.cash_before - LastTrade.cash_after) = LastTrade.cash_before

\* an adopted SELL of 20% of the holdings
C17_SellReached ==
    /\ step.kind = "bar"
    /\ step.consulted
    /\ step.outcome.text.position_size = 25
    /\ step.final.action = "SELL"
    /\ step.final.position_size = 20
    /\ step.executed
    /\ 5 * LastTrade.btc_traded = LastTrade.btc_before

\* C18: decision range: every final decision handed to the ledger, from the
\* rule engine or adopted from the oracle, has position_size within
\* [0, 100], also when the oracle returns a negative size.
C18_DecisionRange ==
    step.kind = "bar" =>
        (step.final.position_size >= 0 /\ step.final.position_size <= 100)

\* C19: auditable decision source: every TradeRecord carries decision_source
\* RULES or AI; it is AI exactly when the executed decision is an adopted
\* oracle candidate, and RULES exactly when the executed decision is
\* identical to the rule engine's proposal for the bar.
C19_DecisionSource ==
    [][ (BarTransition /\ AppendedOne) =>
          LET record == trading_history'[Len(trading_history')]
              adopted ==
                  /\ step'.consulted
                  /\ ReturnedDecision(step'.outcome)
                  /\ step'.final # step'.rule
                  /\ record.action = Upper(step'.outcome.text.action)
                  /\ record.position_size =
                       (IF step'.outcome.text.position_size > 20 THEN 20
                        ELSE step'.outcome.text.position_size)
                  /\ record.reason = step'.outcome.text.reason
              as_proposed ==
                  /\ step'.final = step'.rule
                  /\ record.action = step'.rule.action
                  /\ record.position_size = step'.rule.position_size
                  /\ record.reason = step'.rule.reason
          IN  /\ record.decision_source \in {"RULES", "AI"}
              /\ record.decision_source = "AI" <=> adopted
              /\ record.decision_source = "RULES" <=> as_proposed ]_vars

\* the oracle was asked and answered BUY 25 to the rule's BUY 15; the
\* candidate was not adopted and the executed trade is tagged RULES
C19_Witness ==
    /\ step.kind = "bar"
    /\ step.consulted
    /\ ReturnedDecision(step.outcome)
    /\ step.outcome.text.action = "BUY"
    /\ step.rule.action = "BUY" /\ step.rule.position_size = 15
    /\ step.executed
    /\ LastTrade.decision_source = "RULES"
    /\ LastTrade.position_size = 15

\* a history holding a trade tagged AI and a trade tagged RULES
C19_BothTagsReached ==
    /\ Len(trading_history) = 2
    /\ trading_history[1].decision_source = "AI"
    /\ trading_history[2].decision_source = "RULES"

\* C21: fetch failure is fatal and leaves nothing behind: when the fetch
\* returns None the run ends before the indicators are computed, with no bar
\* processed, no TradeRecord, no PortfolioSnapshot, no call of
\* save_backtest_results and no alert.
C21_FetchFailure ==
    pc = "failed" =>
        /\ total_rows = 0
        /\ processed = 0
        /\ step.kind = "none"
        /\ trading_history = <<>>
        /\ portfolio_history = <<>>
        /\ portfolio.cash = initial_cash /\ portfolio.btc = 0
        /\ saves = 0
        /\ alerts_sent = 0
        /\ ~summary.printed

\* the run that ended on the failed fetch
C21_Witness ==
    /\ pc = "failed"
    /\ saves = 0
    /\ alerts_sent = 0

\* C22: empty series is fatal before anything starts: when the fetched series
\* has zero bars, the run ends without persisting any result artifact
\* (save_backtest_results is not reached).
C22_EmptySeries ==
    (pc \in {"stepping", "done", "crashed"} /\ total_rows = 0) => saves = 0

\* C24: the TradeRecord history is append-only and exact: trading_history
\* grows by exactly one record on a bar if and only if a BUY or SELL was
\* executed on that bar, every record's action is BUY or SELL, records are
\* in increasing bar order, earlier records are never modified or removed,
\* and len(trading_history) always equals trades_executed.
C24_AppendOnly ==
    [][ /\ Len(trading_history') >= Len(trading_history)
        /\ SubSeq(trading_history', 1, Len(trading_history)) = trading_history
        /\ Len(trading_history') = trades_executed'
        /\ \A i \in 1..Len(trading_history') :
             /\ trading_history'[i].action \in {"BUY", "SELL"}
             /\ i > 1 => trading_history'[i - 1].timestamp
                           < trading_history'[i].timestamp
        /\ IF /\ BarTransition
              /\ step'.final.action \in {"BUY", "SELL"}
              /\ (portfolio'.cash # portfolio.cash \/ portfolio'.btc # portfolio.btc)
           THEN /\ Len(trading_history') = Len(trading_history) + 1
                /\ trading_history'[Len(trading_history')].timestamp = idx
                /\ trading_history'[Len(trading_history')].action = step'.final.action
           ELSE trading_history' = trading_history ]_vars

\* the first bar traded, the second held: the history still holds exactly
\* the first bar's record
C24_Witness ==
    /\ processed = 2
    /\ step.kind = "bar"
    /\ step.final.action = "HOLD"
    /\ trades_executed = 1
    /\ Len(trading_history) = 1
    /\ trading_history[1].timestamp = 216

\* two records in bar order
C24_TwoRecordsReached ==
    /\ Len(trading_history) = 2
    /\ trading_history[1].timestamp = 216
    /\ trading_history[2].timestamp = 240

\* The run is a sequential program: it keeps taking its next step, and a
\* request to the oracle returns or raises within its timeout of 8 seconds.
SpecLive == Init /\ [][Next]_vars /\ WF_vars(Next)

\* C25: the run always reaches an end: for every finite series the run
\* processes each selected bar and eventually finishes, with the results
\* saved and the summary produced, or aborted on the failed fetch; an oracle
\* timeout or error on a bar never keeps the later bars from being processed.
C25_Termination ==
    <>( \/ pc = "failed"
        \/ pc = "done" /\ saves = 1 /\ summary.printed )

\* the run always leaves the loop, in one way or another
RunEnds == <>(pc \in {"failed", "done", "crashed"})

\* on a series of more than 200 rows the run ends with the summary
LongRunCompletes == (total_rows > 200) ~> (pc = "done" /\ summary.printed)

\* C26: stride and warm-up: the bars on which the driver evaluates a decision
\* are exactly those whose index i has i mod 24 = 0 and i >= 200 (the first
\* is 216), each processed once in increasing order; no bar with index
\* below 200 reaches the rule engine, the oracle or the ledger.
C26_StrideWarmUp ==
    [][ /\ (processed' # processed \/ step' # step \/ portfolio' # portfolio
              \/ last_ai_call' # last_ai_call)
            => /\ idx % 24 = 0
               /\ idx >= 200
               /\ idx < total_rows
               /\ step'.kind = "bar" /\ step'.idx = idx
               /\ processed' = processed + 1
               /\ IF processed = 0 THEN idx = 216 ELSE idx = step.idx + 24
        /\ (pc = "stepping" /\ pc' # "stepping")
            => processed = Cardinality({ i \in 0..(total_rows - 1) :
                                           i % 24 = 0 /\ i >= 200 }) ]_vars

\* the second processed bar is row 240, after row 216
C26_Witness ==
    /\ pc = "done"
    /\ total_rows = 248
    /\ processed = 2
    /\ step.kind = "bar"
    /\ step.idx = 240

\* a series too short for any bar to be processed
C26_NoBarReached ==
    /\ pc = "crashed"
    /\ total_rows = 150
    /\ processed = 0
    /\ step.kind = "none"

\* C28: the buy-and-hold baseline uses the strategy's window: its entry price
\* is the close of the first bar the strategy processed and its exit price
\* the close of the last bar the strategy processed.
C28_BuyHoldWindow ==
    (pc = "done" /\ summary.printed /\ processed >= 1) =>
        /\ summary.entry_row = 216
        /\ summary.exit_row = step.idx

\* C29: the volatility HOLD is never shielded from the oracle: every bar on
\* which the rule engine returns the high-volatility HOLD passes the
\* significance gate, so with the oracle enabled and the cooldown elapsed
\* the oracle is consulted on that bar, and a BUY or SELL it returns is
\* adopted and applied by the ledger.
C29_VolatilityHoldConsulted ==
    [][ ( /\ BarTransition
          /\ step'.rule.reason = "High volatility - Risk management"
          /\ ai_enabled
          /\ now' - last_ai_call >= 2 )
        =>
        /\ step'.rule.action = "HOLD"
        /\ step'.consulted
        /\ ( /\ ReturnedDecision(step'.outcome)
             /\ Upper(step'.outcome.text.action) \in {"BUY", "SELL"} )
           =>
           LET size == IF step'.outcome.text.position_size > 20 THEN 20
                       ELSE step'.outcome.text.position_size
               amount == (portfolio.cash * size) \div 100
               quantity == (portfolio.btc * size) \div 100
           IN  /\ step'.final.action = Upper(step'.outcome.text.action)
               /\ step'.final.position_size = size
               /\ step'.final.source = "AI_ENHANCED"
               /\ step'.decision_source = "AI"
               /\ IF step'.final.action = "BUY" /\ amount >= 10 * 100
                  THEN /\ portfolio'.cash = portfolio.cash - amount
                       /\ portfolio'.btc = portfolio.btc + (amount * 10) \div step'.price
                       /\ AppendedOne
                  ELSE IF step'.final.action = "SELL" /\ quantity > 0
                  THEN /\ portfolio'.btc = portfolio.btc - quantity
                       /\ portfolio'.cash
                            = portfolio.cash + (quantity * step'.price) \div 10
                       /\ AppendedOne
                  ELSE /\ portfolio'.cash = portfolio.cash
                       /\ portfolio'.btc = portfolio.btc
                       /\ trading_history' = trading_history ]_vars

\* the rule engine held for volatility, the oracle said BUY, and the
\* purchase was executed and tagged AI
C29_Witness ==
    /\ step.kind = "bar"
    /\ step.rule.reason = "High volatility - Risk management"
    /\ step.consulted
    /\ step.outcome.text.action = "BUY"
    /\ step.final.action = "BUY"
    /\ step.executed
    /\ LastTrade.decision_source = "AI"
    /\ LastTrade.type = "BUY"

\* the same with a sale of BTC bought on the bar before
C29_SellReached ==
    /\ step.kind = "bar"
    /\ step.rule.reason = "High volatility - Risk management"
    /\ step.consulted
    /\ step.final.action = "SELL"
    /\ step.executed
    /\ LastTrade.type = "SELL"

----------------------------------------------------------------------------
(* rule_based_strategy as a function of its arguments *)

RulePriceSet == {10000, 30000, 50000}

RuleRsiSet == {25, 30, 40, 50, 60, 70, 75}

RuleAtrSet == {500, 1000, 1001, 1200}

RuleFrames ==
    { [price |-> p, rsi |-> r, sma50 |-> s50, sma200 |-> 30000,
       ema12 |-> e12, ema26 |-> e26, macd |-> m, atr |-> a] :
        p \in RulePriceSet, r \in RuleRsiSet, s50 \in {20000, 30000, 40000},
        e12 \in {20000, 40000}, e26 \in {13000, 45000}, m \in {-100, 0, 100},
        a \in RuleAtrSet }

\* cash at, just above and far above min_trade_usd, without and with holdings
RulePortfolios ==
    { [cash |-> c, btc |-> b, total_value |-> c, realized_profit |-> 0] :
        c \in {0, Usd(min_trade_usd), Usd(min_trade_usd) + 1, Usd(100000)},
        b \in {0, 1000} }

\* the variables a specification of one call leaves at their initial values
Unused ==
    /\ initial_cash = Usd(100000)
    /\ trading_history = <<>>
    /\ portfolio_history = <<>>
    /\ total_rows = 0
    /\ idx = 0
    /\ processed = 0
    /\ ai_decisions = 0
    /\ rule_decisions = 0
    /\ trades_executed = 0
    /\ oracle_kinds = {}
    /\ rule_only = rule_only_start(initial_cash)
    /\ NoOutputs
    /\ TradingSystemInit

InitRule ==
    /\ pc = "rule"
    /\ \E md \in RuleFrames : step = [kind |-> "rule_input", md |-> md]
    /\ portfolio \in RulePortfolios
    /\ ai_enabled = FALSE
    /\ last_ai_call = 0
    /\ now = 1000
    /\ Unused

\* rule_decision = backtest.rule_based_strategy(market_data, portfolio)
RuleCall ==
    /\ pc = "rule"
    /\ pc' = "rule_done"
    /\ step' = [kind |-> "rule_result", md |-> step.md,
                decision |-> rule_based_strategy(step.md, portfolio)]
    /\ UNCHANGED <<initial_cash, portfolio, trading_history, portfolio_history,
                   ai_enabled, last_ai_call, now, total_rows, idx, processed,
                   ai_decisions, rule_decisions, trades_executed, oracle_kinds, rule_only,
                   outputs, dashboard>>

SpecRule == InitRule /\ [][RuleCall]_vars

\* C5: volatility precedence: whenever atr > atr_high the rule engine returns
\* HOLD with position_size 0, whatever RSI, MACD, the moving averages, cash
\* and holdings are.
C5_VolatilityPrecedence ==
    (step.kind = "rule_result" /\ step.md.atr > 1000) =>
        /\ step.decision.action = "HOLD"
        /\ step.decision.position_size = 0

\* a frame above the threshold on which the bullish oversold rule would
\* otherwise buy
C5_Witness ==
    /\ step.kind = "rule_result"
    /\ step.md.atr = 1001
    /\ step.md.sma50 > step.md.sma200
    /\ step.md.rsi < 30
    /\ portfolio.cash > 10 * 100
    /\ step.decision.action = "HOLD"

\* C11: sideways classification: when atr <= atr_high and sma50 = sma200 the
\* rule engine applies neither the bullish nor the bearish rules; it returns
\* BUY 5 if rsi < 35 and cash > min_trade_usd, else SELL 5 if rsi > 65 and
\* btc > 0, else HOLD.
C11_Sideways ==
    (step.kind = "rule_result" /\ step.md.atr <= 1000
       /\ step.md.sma50 = step.md.sma200) =>
        IF step.md.rsi < 35 /\ portfolio.cash > 10 * 100
        THEN step.decision.action = "BUY" /\ step.decision.position_size = 5
        ELSE IF step.md.rsi > 65 /\ portfolio.btc > 0
        THEN step.decision.action = "SELL" /\ step.decision.position_size = 5
        ELSE step.decision.action = "HOLD" /\ step.decision.position_size = 0

\* C12: bullish rules, first match wins: when atr <= atr_high and
\* sma50 > sma200 the rule engine returns BUY 15 if rsi < 30 and
\* cash > min_trade_usd; else BUY 10 if macd > 0 and rsi < 60 and
\* cash > min_trade_usd; else BUY 8 if price > ema12 > ema26 and
\* cash > min_trade_usd; else HOLD 0.  It never returns SELL, and never BUY
\* when cash <= min_trade_usd.
C12_BullishRules ==
    (step.kind = "rule_result" /\ step.md.atr <= 1000
       /\ step.md.sma50 > step.md.sma200) =>
        /\ IF step.md.rsi < 30 /\ portfolio.cash > 10 * 100
           THEN step.decision.action = "BUY" /\ step.decision.position_size = 15
           ELSE IF step.md.macd > 0 /\ step.md.rsi < 60 /\ portfolio.cash > 10 * 100
           THEN step.decision.action = "BUY" /\ step.decision.position_size = 10
           ELSE IF /\ step.md.price > step.md.ema12
                   /\ step.md.ema12 > step.md.ema26
                   /\ portfolio.cash > 10 * 100
           THEN step.decision.action = "BUY" /\ step.decision.position_size = 8
           ELSE step.decision.action = "HOLD" /\ step.decision.position_size = 0
        /\ step.decision.action # "SELL"
        /\ (portfolio.cash <= 10 * 100 => step.decision.action # "BUY")

\* a bullish frame on which all three buy rules match and the first one wins
C12_Witness ==
    /\ step.kind = "rule_result"
    /\ step.md.atr <= 1000
    /\ step.md.sma50 > step.md.sma200
    /\ step.md.rsi < 30
    /\ step.md.macd > 0
    /\ step.md.price > step.md.ema12 /\ step.md.ema12 > step.md.ema26
    /\ portfolio.cash > 10 * 100
    /\ step.decision.action = "BUY"
    /\ step.decision.position_size = 15

\* a bullish frame with every buy signal present and cash exactly at
\* min_trade_usd: the engine holds
C12_NoCashReached ==
    /\ step.kind = "rule_result"
    /\ step.md.atr <= 1000
    /\ step.md.sma50 > step.md.sma200
    /\ step.md.rsi < 30
    /\ portfolio.cash = 10 * 100
    /\ step.decision.action = "HOLD"

\* C13: bearish rules, first match wins: when atr <= atr_high and
\* sma50 < sma200 the rule engine returns SELL 15 if rsi > 70 and btc > 0;
\* else SELL 10 if macd < 0 and rsi > 40 and btc > 0; else SELL 8 if
\* price < ema12 < ema26 and btc > 0; else HOLD 0.  It never returns BUY, and
\* never SELL when btc = 0.
C13_BearishRules ==
    (step.kind = "rule_result" /\ step.md.atr <= 1000
       /\ step.md.sma50 < step.md.sma200) =>
        /\ IF step.md.rsi > 70 /\ portfolio.btc > 0
           THEN step.decision.action = "SELL" /\ step.decision.position_size = 15
           ELSE IF step.md.macd < 0 /\ step.md.rsi > 40 /\ portfolio.btc > 0
           THEN step.decision.action = "SELL" /\ step.decision.position_size = 10
           ELSE IF /\ step.md.price < step.md.ema12
                   /\ step.md.ema12 < step.md.ema26
                   /\ portfolio.btc > 0
           THEN step.decision.action = "SELL" /\ step.decision.position_size = 8
           ELSE step.decision.action = "HOLD" /\ step.decision.position_size = 0
        /\ step.decision.action # "BUY"
        /\ (portfolio.btc = 0 => step.decision.action # "SELL")

\* a bearish frame with RSI exactly 70 and negative MACD: the overbought rule
\* does not match, the momentum rule does
C13_Witness ==
    /\ step.kind = "rule_result"
    /\ step.md.atr <= 1000
    /\ step.md.sma50 < step.md.sma200
    /\ step.md.rsi = 70
    /\ step.md.macd < 0
    /\ portfolio.btc > 0
    /\ step.decision.action = "SELL"
    /\ step.decision.position_size = 10

\* a bearish frame on which only the downtrend rule matches
C13_DowntrendReached ==
    /\ step.kind = "rule_result"
    /\ step.md.sma50 < step.md.sma200
    /\ step.md.rsi <= 40
    /\ portfolio.btc > 0
    /\ step.decision.action = "SELL"
    /\ step.decision.position_size = 8

----------------------------------------------------------------------------
(* FastGemmaAIAgent.get_ai_decision as a function of its arguments, the *)
(* clock and the agent's fields                                          *)

AgentFrames ==
    { [price |-> p, rsi |-> r, sma50 |-> 50000, sma200 |-> s200,
       ema12 |-> 40000, ema26 |-> e26, macd |-> 40000 - e26, atr |-> a] :
        p \in {50000, 52500, 52501}, r \in {25, 30, 50, 75}, s200 \in {40000, 60000},
        e26 \in {13000, 45000}, a \in {500, 800, 801, 1200} }

AgentPortfolios ==
    { [cash |-> Usd(100000), btc |-> b, total_value |-> Usd(100000),
       realized_profit |-> 0] : b \in {0, 1000} }

AgentTexts ==
    { WellFormed(a, z) : a \in {"BUY", "SELL", "HOLD", "buy", "WAIT"},
                         z \in {-5, 0, 5, 10, 15, 20, 25} }
    \cup { ResponseText("no_json", {}, "", "str", 0, "num"),
           ResponseText("invalid_json", {}, "", "str", 0, "num"),
           ResponseText("object", {"action", "position_size"}, "BUY", "str", 10, "num"),
           ResponseText("object", {"action", "reason"}, "BUY", "str", 0, "num"),
           ResponseText("object", {"position_size", "reason"}, "", "str", 10, "num"),
           ResponseText("object", RequiredKeys, "", "other", 10, "num"),
           ResponseText("object", RequiredKeys, "SELL", "str", 0, "other") }

AgentOutcomes ==
    { Outcome(k, NoText) : k \in OracleKinds \ {"ok"} }
    \cup { Outcome("ok", t) : t \in AgentTexts }

\* the agent before a call: enabled or not, the last request long ago,
\* exactly ai_call_delay ago, or less than that ago
InitAgent ==
    /\ pc = "agent"
    /\ \E md \in AgentFrames, outcome \in AgentOutcomes :
         step = [kind |-> "agent_input", md |-> md, outcome |-> outcome]
    /\ portfolio \in AgentPortfolios
    /\ ai_enabled \in BOOLEAN
    /\ now = 1000
    /\ last_ai_call \in {0, now - ai_call_delay, now - ai_call_delay + 1}
    /\ Unused

\* final_decision = gemma_agent.get_ai_decision(market_data, portfolio,
\*                                              rule_decision)
AgentCall ==
    /\ pc = "agent"
    /\ pc' = "agent_done"
    /\ LET rule_decision == rule_based_strategy(step.md, portfolio)
           consulted == should_use_ai(step.md, rule_decision, now, last_ai_call,
                                      ai_enabled)
       IN  /\ step' = [kind |-> "agent_result", md |-> step.md,
                       rule |-> rule_decision, consulted |-> consulted,
                       outcome |-> step.outcome,
                       final |-> get_ai_decision(step.md, rule_decision, step.outcome,
                                                 now, last_ai_call, ai_enabled)]
           /\ last_ai_call' = IF consulted THEN now ELSE last_ai_call
    /\ UNCHANGED <<initial_cash, portfolio, trading_history, portfolio_history,
                   ai_enabled, now, total_rows, idx, processed,
                   ai_decisions, rule_decisions, trades_executed, oracle_kinds, rule_only,
                   outputs, dashboard>>

SpecAgent == InitAgent /\ [][AgentCall]_vars

\* the consultation ended in a transport error, a timeout, a status other
\* than 200, or a response that is not a JSON object holding action,
\* position_size and reason
ConsultationFailed(outcome) ==
    \/ outcome.kind \in {"timeout", "connection_error", "http_error", "bad_body"}
    \/ outcome.kind = "ok" /\ ~ReturnedDecision(outcome)

\* C2: fail-closed arbitration: whenever the consultation ends in a transport
\* error, a timeout, a non-200 status or a malformed response,
\* get_ai_decision returns the rule decision unchanged.
C2_FailClosed ==
    (step.kind = "agent_result" /\ step.consulted /\ ConsultationFailed(step.outcome))
        => step.final = step.rule

\* C15: significance gate: the oracle is consulted only if the price is more
\* than 5% away from sma50, or |rsi - 50| > 20, or atr > 800, or the rule
\* decision's position_size is at least 15, and the oracle is enabled; when
\* none of the four holds no request is made and get_ai_decision returns
\* the rule decision unchanged.
C15_SignificanceGate ==
    step.kind = "agent_result" =>
        LET deviation == IF step.md.price >= step.md.sma50
                         THEN step.md.price - step.md.sma50
                         ELSE step.md.sma50 - step.md.price
            rsi_distance == IF step.md.rsi >= 50 THEN step.md.rsi - 50
                            ELSE 50 - step.md.rsi
            significant == \/ 100 * deviation > 5 * step.md.sma50
                           \/ rsi_distance > 20
                           \/ step.md.atr > 800
                           \/ step.rule.position_size >= 15
        IN  /\ step.consulted => (significant /\ ai_enabled)
            /\ ~significant => /\ ~step.consulted
                                /\ step.final = step.rule
                                /\ last_ai_call < now   \* no request was stamped

\* price exactly 5% above sma50, RSI exactly 20 below 50, ATR exactly 800 and
\* a rule size of 10: the enabled, idle oracle is not asked, although it
\* would have answered with another action
C15_Witness ==
    /\ step.kind = "agent_result"
    /\ ai_enabled
    /\ last_ai_call = 0
    /\ step.md.price = 52500 /\ step.md.sma50 = 50000
    /\ step.md.rsi = 30
    /\ step.md.atr = 800
    /\ step.rule.action = "BUY" /\ step.rule.position_size = 10
    /\ ReturnedDecision(step.outcome)
    /\ step.outcome.text.action = "SELL"
    /\ ~step.consulted
    /\ step.final = step.rule

\* a request made on the ATR signal alone
C15_AtrAloneReached ==
    /\ step.kind = "agent_result"
    /\ step.consulted
    /\ step.md.price = 50000
    /\ step.md.rsi = 50
    /\ step.md.atr = 801
    /\ step.rule.position_size < 15

C16_SizeAdoptedReached ==
    /\ step.kind = "agent_result"
    /\ step.consulted
    /\ ReturnedDecision(step.outcome)
    /\ step.rule.action = "BUY" /\ step.rule.position_size = 15
    /\ step.outcome.text.action = "BUY" /\ step.outcome.text.position_size = 5
    /\ step.final.source = "AI_ENHANCED"
    /\ step.final.position_size = 5


----------------------------------------------------------------------------
(* A sequence of get_ai_decision calls on one agent, the clock advancing *)
(* between them                                                          *)

\* the number of calls in a sequence
MaxCalls == 3

\* seconds between the arrival of two calls
GapSet == {0, 1, 2, 3}

\* a frame on which the rule engine buys 15% (a significant event) and one
\* on which it holds and no significance signal is set
CallFrames ==
    { [price |-> 50000, rsi |-> r, sma50 |-> 50000, sma200 |-> 40000,
       ema12 |-> 40000, ema26 |-> 45000, macd |-> 40000 - 45000, atr |-> 500] :
        r \in {25, 50} }

CallOutcomes ==
    { Outcome("timeout", NoText),
      Outcome("ok", WellFormed("SELL", 10)),
      Outcome("ok", WellFormed("BUY", 15)) }

\* FastGemmaAIAgent.__init__; step.request_times lists the times at which
\* requests.post was called so far
InitCalls ==
    /\ pc = "calls"
    /\ step = [kind |-> "calls_start", request_times |-> <<>>]
    /\ portfolio = [cash |-> Usd(100000), btc |-> 0, total_value |-> Usd(100000),
                    realized_profit |-> 0]
    /\ ai_enabled \in BOOLEAN
    /\ last_ai_call = 0
    /\ now = 1000
    /\ Unused

\* one more call of get_ai_decision, arriving gap seconds after the previous
\* one; processed counts the calls
CallAgent ==
    /\ pc = "calls"
    /\ processed < MaxCalls
    /\ \E md \in CallFrames, gap \in GapSet :
         LET current_time == now + gap
             rule_decision == rule_based_strategy(md, portfolio)
             consulted == should_use_ai(md, rule_decision, current_time,
                                        last_ai_call, ai_enabled)
         IN  \E outcome \in (IF consulted THEN CallOutcomes ELSE {NoOutcome}) :
               /\ now' = current_time
               /\ last_ai_call' = IF consulted THEN current_time ELSE last_ai_call
               /\ step' = [kind |-> "call", md |-> md, rule |-> rule_decision,
                           arrived |-> current_time, consulted |-> consulted,
                           outcome |-> outcome,
                           final |-> get_ai_decision(md, rule_decision, outcome,
                                                     current_time, last_ai_call,
                                                     ai_enabled),
                           request_times |->
                               IF consulted
                               THEN Append(step.request_times, current_time)
                               ELSE step.request_times]
    /\ processed' = processed + 1
    /\ UNCHANGED <<pc, initial_cash, portfolio, trading_history, portfolio_history,
                   ai_enabled, total_rows, idx, ai_decisions, rule_decisions,
                   trades_executed, oracle_kinds, rule_only,
                   outputs, dashboard>>

SpecCalls == InitCalls /\ [][CallAgent]_vars

\* the requests made before the last call
PriorRequests ==
    IF step.consulted
    THEN SubSeq(step.request_times, 1, Len(step.request_times) - 1)
    ELSE step.request_times

\* C14: oracle rate limit: over any sequence of get_ai_decision calls, any
\* two requests to the oracle are at least ai_call_delay (2) time units
\* apart, and a call arriving less than ai_call_delay after the last request
\* makes no request and returns the rule decision unchanged.
C14_RateLimit ==
    step.kind = "call" =>
        /\ \A i, j \in 1..Len(step.request_times) :
             i < j => step.request_times[j] - step.request_times[i] >= 2
        /\ ( /\ Len(PriorRequests) > 0
             /\ step.arrived - PriorRequests[Len(PriorRequests)] < 2 ) =>
               /\ ~step.consulted
               /\ step.final = step.rule

\* a call with a significant event and the oracle enabled, arriving one
\* second after a request: only the rate limit keeps it from the oracle
C14_Witness ==
    /\ step.kind = "call"
    /\ ai_enabled
    /\ step.md.rsi = 25
    /\ Len(step.request_times) > 0
    /\ step.arrived - step.request_times[Len(step.request_times)] = 1
    /\ ~step.consulted
    /\ step.final = step.rule

\* two requests exactly ai_call_delay apart
C14_SpacedReached ==
    /\ step.kind = "call"
    /\ step.consulted
    /\ Len(step.request_times) >= 2
    /\ step.request_times[Len(step.request_times)]
         - step.request_times[Len(step.request_times) - 1] = 2

----------------------------------------------------------------------------
(* A degraded run: the oracle is unavailable, either found absent by   *)
(* check_ai_connection or failing every request, and the rule-only run *)
(* of the same bars is kept beside it                                  *)

\* requests.post raises Timeout or ConnectionError
UnavailableOutcomes ==
    { Outcome(k, NoText) : k \in {"timeout", "connection_error"} }

\* one iteration of the loop with the oracle unavailable, and the same bar
\* for the rule-only run
ProcessBarDegraded ==
    /\ pc = "stepping"
    /\ idx < total_rows
    /\ idx >= WarmUp
    /\ \E md \in Frames, elapsed \in ElapsedSet :
         /\ IF should_use_ai(md, rule_based_strategy(md, portfolio), now + elapsed,
                             last_ai_call, ai_enabled)
            THEN \E outcome \in UnavailableOutcomes :
                    LoopBody(md, outcome, now + elapsed)
            ELSE LoopBody(md, NoOutcome, now + elapsed)
         /\ rule_only' = rule_only_step(rule_only, md, idx, processed + 1)
    /\ idx' = idx + Stride
    /\ UNCHANGED <<pc, initial_cash, ai_enabled, total_rows, saves, summary,
                   dashboard>>

NextDegraded == FetchFailed \/ Fetched \/ SkipWarmUp \/ ProcessBarDegraded \/ Finish

SpecDegraded == Init /\ [][NextDegraded]_vars

\* C20: degraded run equals rule-only run: for the same indicator series, a
\* run whose oracle is unavailable (ai_enabled false, or every request ending
\* in a connection error or a timeout) produces the same sequence of
\* TradeRecords, the same PortfolioSnapshots and the same final portfolio as
\* a run that uses only rule_based_strategy.
C20_DegradedEqualsRuleOnly ==
    /\ trading_history = rule_only.trading_history
    /\ portfolio_history = rule_only.portfolio_history
    /\ portfolio = rule_only.portfolio

\* a finished run with the oracle enabled in which one request timed out and
\* one met a connection error, and both bars traded
C20_Witness ==
    /\ pc = "done"
    /\ ai_enabled
    /\ oracle_kinds = {"timeout", "connection_error"}
    /\ Len(trading_history) = 2
    /\ trading_history = rule_only.trading_history
    /\ Len(portfolio_history) = 1
    /\ portfolio = rule_only.portfolio

\* a finished run with the oracle found absent at construction that traded
C20_DisabledReached ==
    /\ pc = "done"
    /\ ~ai_enabled
    /\ Len(trading_history) >= 1
    /\ trading_history = rule_only.trading_history

----------------------------------------------------------------------------
(* OptimizedBacktest.calculate_technical_indicators on a series of n rows: *)
(* which rows of which indicator column hold a value (are not NaN)         *)

\* the longest series drawn
MaxSeriesLen == 210

\* The number of observations a column needs before its first value:
\* rolling(w).mean() needs w, ewm(span).mean() needs one, MACD is the
\* difference of the two EMAs.  RSI_14 and ATR_14 are rolling(14) means of
\* series that hold a value in every row (on prices that are not flat).
IndicatorWindows ==
    [RSI_14 |-> 14, SMA_20 |-> 20, SMA_50 |-> 50, SMA_200 |-> 200,
     EMA_12 |-> 1, EMA_26 |-> 1, MACD |-> 1, ATR_14 |-> 14]

\* rows 0..n-1 at which a rolling window of w rows is full
rolling_defined(n, w) == { i \in 0..(n - 1) : i >= w - 1 }

\* DataFrame.ffill(): a row takes the last value at or before it
ffill(n, defined) == { i \in 0..(n - 1) : \E j \in defined : j <= i }

\* DataFrame.bfill(): a row still empty takes the next value after it
bfill(n, defined) == { i \in 0..(n - 1) : \E j \in defined : j >= i }

calculate_technical_indicators(n) ==
    [c \in DOMAIN IndicatorWindows |->
        bfill(n, ffill(n, rolling_defined(n, IndicatorWindows[c])))]

InitIndicators ==
    /\ pc = "indicators"
    /\ total_rows \in 1..MaxSeriesLen
    /\ step = [kind |-> "indicators_input"]
    /\ initial_cash = Usd(100000)
    /\ portfolio = [cash |-> initial_cash, btc |-> 0, total_value |-> initial_cash,
                    realized_profit |-> 0]
    /\ trading_history = <<>>
    /\ portfolio_history = <<>>
    /\ ai_enabled = FALSE
    /\ last_ai_call = 0
    /\ now = 1000
    /\ idx = 0
    /\ processed = 0
    /\ ai_decisions = 0
    /\ rule_decisions = 0
    /\ trades_executed = 0
    /\ oracle_kinds = {}
    /\ rule_only = rule_only_start(initial_cash)
    /\ NoOutputs
    /\ TradingSystemInit

\* df_with_indicators = backtest.calculate_technical_indicators(df)
ComputeIndicators ==
    /\ pc = "indicators"
    /\ pc' = "indicators_done"
    /\ step' = [kind |-> "indicators_result",
                defined |-> calculate_technical_indicators(total_rows)]
    /\ UNCHANGED <<initial_cash, portfolio, trading_history, portfolio_history,
                   ai_enabled, last_ai_call, now, total_rows, idx, processed,
                   ai_decisions, rule_decisions, trades_executed, oracle_kinds,
                   rule_only, outputs, dashboard>>

SpecIndicators == InitIndicators /\ [][ComputeIndicators]_vars

\* C23: short series: for every series of N rows, 1 <= N < 200,
\* calculate_technical_indicators completes and every indicator field of
\* every row, SMA_200 included, holds a value after the forward and backward
\* fill.
C23_ShortSeries ==
    (step.kind = "indicators_result" /\ total_rows >= 1 /\ total_rows < 200) =>
        \A c \in DOMAIN step.defined : step.defined[c] = 0..(total_rows - 1)

----------------------------------------------------------------------------
(* A long run without the oracle: enough bars for the snapshot cadence *)

\* number of bars of the long run
MaxCadenceBars == 61

\* a frame on which the rule engine buys and one on which it holds
CadenceFrames ==
    { md \in Frames : /\ md.price = 10000 /\ md.sma50 = 50000 /\ md.atr = 500
                      /\ md.rsi \in {25, 75} }

\* the dollars the long run starts with: enough for two purchases of 15%
\* above min_trade_usd
CadenceCash == 80

\* the run after the fetch, check_ai_connection having found no oracle
InitCadence ==
    /\ pc = "stepping"
    /\ initial_cash = Usd(CadenceCash)
    /\ portfolio = [cash |-> initial_cash, btc |-> 0, total_value |-> initial_cash,
                    realized_profit |-> 0]
    /\ trading_history = <<>>
    /\ portfolio_history = <<>>
    /\ ai_enabled = FALSE
    /\ last_ai_call = 0
    /\ now = 1000
    /\ total_rows = WarmUp + Stride * MaxCadenceBars
    /\ idx = 0
    /\ processed = 0
    /\ ai_decisions = 0
    /\ rule_decisions = 0
    /\ trades_executed = 0
    /\ step = NoStep
    /\ oracle_kinds = {}
    /\ rule_only = rule_only_start(initial_cash)
    /\ NoOutputs
    /\ TradingSystemInit

\* one iteration of the loop with the oracle absent
ProcessBarQuiet ==
    /\ pc = "stepping"
    /\ idx < total_rows
    /\ idx >= WarmUp
    /\ ~ai_enabled
    /\ \E md \in CadenceFrames : LoopBody(md, NoOutcome, now + 1)
    /\ idx' = idx + Stride
    /\ UNCHANGED <<pc, initial_cash, ai_enabled, total_rows, rule_only,
                   saves, summary, dashboard>>

NextCadence == SkipWarmUp \/ ProcessBarQuiet \/ Finish

SpecCadence == InitCadence /\ [][NextCadence]_vars

\* C27: snapshot cadence is independent of trades: a PortfolioSnapshot is
\* appended on the first processed bar and on every processed bar whose
\* ordinal is a multiple of 30, whether or not a trade was executed on it,
\* and on no other bar; after k >= 1 processed bars portfolio_history holds
\* exactly 1 + floor(k / 30) snapshots, each with the post-trade cash, btc
\* and total_value of its bar.
C27_SnapshotCadence ==
    [][ BarTransition =>
          /\ IF processed' = 1 \/ processed' % 30 = 0
             THEN /\ Len(portfolio_history') = Len(portfolio_history) + 1
                  /\ SubSeq(portfolio_history', 1, Len(portfolio_history))
                       = portfolio_history
                  /\ LET snapshot == portfolio_history'[Len(portfolio_history')]
                     IN  /\ snapshot.timestamp = idx
                         /\ snapshot.cash = portfolio'.cash
                         /\ snapshot.btc_holdings = portfolio'.btc
                         /\ snapshot.total_value = portfolio'.total_value
                         /\ snapshot.total_value
                              = portfolio'.cash + (portfolio'.btc * step'.price) \div 10
             ELSE portfolio_history' = portfolio_history
          /\ Len(portfolio_history') = 1 + (processed' \div 30) ]_vars

\* the 30th bar held, after an earlier purchase, and was snapshotted
C27_Witness ==
    /\ processed = 30
    /\ step.kind = "bar"
    /\ ~step.executed
    /\ trades_executed >= 1
    /\ Len(portfolio_history) = 2
    /\ portfolio_history[2].timestamp = step.idx
    /\ portfolio_history[2].btc_holdings > 0

\* the 60th bar traded and was snapshotted: three snapshots
C27_ThirdReached ==
    /\ processed = 60
    /\ step.executed
    /\ Len(portfolio_history) = 3

\* bars 2 to 29 traded without a snapshot
C27_TradeWithoutSnapshotReached ==
    /\ processed = 29
    /\ trades_executed = 2
    /\ trading_history[1].timestamp > 216
    /\ Len(portfolio_history) = 1

----------------------------------------------------------------------------
(* TradingSystem.run_backtest of the dashboard, under concurrent callers *)

\* how many times a POST /run-backtest client calls
MaxRequests == 2

\* startup_event calls initialize_system once, which calls run_backtest when
\* no performance file exists; a client may post again and again
RequestLimit(c) == IF c = "startup" THEN 1 ELSE MaxRequests

\* the state of the backtest script, which the dashboard does not touch
backtest_state ==
    <<pc, initial_cash, portfolio, trading_history, portfolio_history,
      ai_enabled, last_ai_call, now, total_rows, idx, processed, ai_decisions,
      rule_decisions, trades_executed, step, oracle_kinds, rule_only, outputs>>

\* trading_system = TradingSystem(), before the application starts
InitDashboard ==
    /\ pc = "dashboard"
    /\ total_rows = 0
    /\ step = NoStep
    /\ initial_cash = Usd(100000)
    /\ portfolio = [cash |-> initial_cash, btc |-> 0, total_value |-> initial_cash,
                    realized_profit |-> 0]
    /\ trading_history = <<>>
    /\ portfolio_history = <<>>
    /\ ai_enabled = FALSE
    /\ last_ai_call = 0
    /\ now = 1000
    /\ idx = 0
    /\ processed = 0
    /\ ai_decisions = 0
    /\ rule_decisions = 0
    /\ trades_executed = 0
    /\ oracle_kinds = {}
    /\ rule_only = rule_only_start(initial_cash)
    /\ NoOutputs
    /\ TradingSystemInit

\* faulty variant: the call does not look at is_running
CallRunBacktest_unguarded(c) ==
    /\ calls[c].pc = "idle"
    /\ calls[c].requests < RequestLimit(c)
    /\ is_running' = TRUE
    /\ calls' = [calls EXCEPT ![c] = [pc |-> "starting", result |-> "none",
                                      requests |-> @.requests + 1]]
    /\ UNCHANGED <<subprocesses, backtest_state>>

\* run_backtest up to its first await: `if self.is_running: return
\* {"status": "already_running"}`, else `self.is_running = True` and the
\* coroutine suspends in create_subprocess_exec. No await separates the test
\* from the assignment, so the event loop runs them as one step.
CallRunBacktest(c) ==
    /\ calls[c].pc = "idle"
    /\ calls[c].requests < RequestLimit(c)
    /\ IF is_running
       THEN /\ calls' = [calls EXCEPT ![c] = [pc |-> "idle",
                                              result |-> "already_running",
                                              requests |-> @.requests + 1]]
            /\ UNCHANGED is_running
       ELSE /\ is_running' = TRUE
            /\ calls' = [calls EXCEPT ![c] = [pc |-> "starting", result |-> "none",
                                              requests |-> @.requests + 1]]
    /\ UNCHANGED <<subprocesses, backtest_state>>

\* create_subprocess_exec returns the process; the coroutine suspends in
\* process.communicate()
StartSubprocess(c) ==
    /\ calls[c].pc = "starting"
    /\ subprocesses' = subprocesses + 1
    /\ calls' = [calls EXCEPT ![c].pc = "waiting"]
    /\ UNCHANGED <<is_running, backtest_state>>

\* create_subprocess_exec raises: `except Exception` resets the flag and
\* returns an error
StartRaises(c) ==
    /\ calls[c].pc = "starting"
    /\ is_running' = FALSE
    /\ calls' = [calls EXCEPT ![c].pc = "idle", ![c].result = "error"]
    /\ UNCHANGED <<subprocesses, backtest_state>>

\* communicate() returns when the subprocess has exited: the flag is reset
\* and the status follows the return code
SubprocessEnds(c) ==
    /\ calls[c].pc = "waiting"
    /\ subprocesses' = subprocesses - 1
    /\ is_running' = FALSE
    /\ \E status \in {"success", "error"} :
          calls' = [calls EXCEPT ![c].pc = "idle", ![c].result = status]
    /\ UNCHANGED backtest_state

NextDashboard ==
    \E c \in Callers :
        \/ CallRunBacktest(c)
        \/ StartSubprocess(c)
        \/ StartRaises(c)
        \/ SubprocessEnds(c)

SpecDashboard == InitDashboard /\ [][NextDashboard]_vars

\* C30: for any interleaving of concurrent run_backtest calls at most one
\* backtest subprocess is running at any moment; a call made while
\* is_running is true returns already_running without starting a
\* subprocess; is_running is reset to false after the subprocess ends or
\* start-up raises, so that with no call in flight the flag is down and a
\* later call runs again.
C30_SingleBacktest ==
    /\ [](subprocesses <= 1)
    /\ []((\A c \in Callers : calls[c].pc = "idle") => ~is_running)
    /\ [][ \A c \in Callers :
             /\ ( /\ calls'[c].requests = calls[c].requests + 1
                  /\ is_running )
                => /\ calls'[c].result = "already_running"
                   /\ calls'[c].pc = "idle"
                   /\ subprocesses' = subprocesses
                   /\ \A d \in Callers \ {c} : calls'[d] = calls[d]
             /\ ( /\ calls'[c].requests = calls[c].requests + 1
                  /\ ~is_running )
                => /\ calls'[c].pc = "starting"
                   /\ is_running'
             /\ (calls[c].pc = "waiting" /\ calls'[c].pc = "idle")
                => /\ subprocesses' = subprocesses - 1
                   /\ ~is_running'
             /\ (calls[c].pc = "starting" /\ calls'[c].pc = "idle")
                => /\ calls'[c].result = "error"
                   /\ subprocesses' = subprocesses
                   /\ ~is_running' ]_vars

\* a client was turned away while the backtest started at startup is alive
C30_Witness ==
    /\ calls["startup"].pc = "waiting"
    /\ subprocesses = 1
    /\ calls["post_a"].result = "already_running"
    /\ calls["post_a"].pc = "idle"

\* a later call runs again: one backtest ended, the same client was turned
\* away before, and another client's backtest is running now
C30_LaterCallReached ==
    /\ calls["startup"].result = "success"
    /\ calls["startup"].pc = "idle"
    /\ calls["post_a"].pc = "waiting"
    /\ calls["post_a"].requests = 2
    /\ subprocesses = 1

\* a later call runs again after start-up raised
C30_AfterRaiseReached ==
    /\ calls["post_b"].result = "error"
    /\ calls["post_b"].pc = "idle"
    /\ calls["post_a"].pc = "waiting"
    /\ subprocesses = 1
    /\ calls["startup"].requests = 0

============================================================================
